---- MODULE Spec2Model ----
(***************************************************************************)
(* The mission bridge of Assets/Control Interface App/SatelliteTest:       *)
(* ros_bridge.py (ROSBridge.__init__, ROSBridge.run, ROSBridge.send_mission *)
(* and main).  One process: it accepts a TCP connection, reads it to       *)
(* end-of-stream, decodes the bytes as UTF-8 JSON, builds a Mission goal    *)
(* and submits it through the rclpy action client.                         *)
(*                                                                         *)
(* The wire is modelled at the level of lexemes: one element of a byte      *)
(* sequence is one JSON lexeme ("{", "latitude:", "1.5", ...), a newline,    *)
(* a character that is not JSON ("x") or a byte that is not UTF-8 ("0xFF"). *)
(***************************************************************************)
EXTENDS Integers, Sequences, FiniteSets, TLC

(***************************************************************************)
(* Bounds of the model.                                                    *)
(***************************************************************************)
\* connections the clients open in one run of the bridge
MaxConns == 2
\* waypoints in a generated mission
MaxWps == 2
\* lexemes one recv() returns at most
MaxChunk == 2

\* ros_bridge.py:18  self.sock.listen(1)
Backlog == 1

(***************************************************************************)
(* JSON values, as json.loads builds them.  Every value is a record with a  *)
(* tag t: scalars carry their lexeme in v, a list its elements in a, a dict  *)
(* its key -> value function in m.                                          *)
(***************************************************************************)
JNull == [t |-> "null"]
JInt(s) == [t |-> "int", v |-> s]
JFloat(s) == [t |-> "float", v |-> s]
JStr(s) == [t |-> "str", v |-> s]
JBool(s) == [t |-> "bool", v |-> s]
JArr(a) == [t |-> "arr", a |-> a]
JObj(m) == [t |-> "obj", m |-> m]

IntLexemes == {"0", "2", "3", "5"}
FloatLexemes == {"0.0", "1.5", "2.5", "3.5", "4.5"}
StrLexemes == {"\"\"", "\"abc\""}
BoolLexemes == {"true", "false"}
KeyLexemes == {"search_object:", "search_pattern:", "nav_waypoints:",
               "latitude:", "longitude:"}

\* the dict key a key lexeme ("name": with its colon) stands for
KeyName(k) ==
    CASE k = "search_object:" -> "search_object"
      [] k = "search_pattern:" -> "search_pattern"
      [] k = "nav_waypoints:" -> "nav_waypoints"
      [] k = "latitude:" -> "latitude"
      [] k = "longitude:" -> "longitude"

IsScalarLexeme(x) ==
    x = "null" \/ x \in IntLexemes \/ x \in FloatLexemes
               \/ x \in StrLexemes \/ x \in BoolLexemes

ScalarValue(x) ==
    CASE x = "null" -> JNull
      [] x \in IntLexemes -> JInt(x)
      [] x \in FloatLexemes -> JFloat(x)
      [] x \in StrLexemes -> JStr(x)
      [] x \in BoolLexemes -> JBool(x)

(***************************************************************************)
(* data.decode('utf-8') (line 34): fails on a byte that is not UTF-8.       *)
(***************************************************************************)
Utf8Ok(bytes) == \A i \in 1..Len(bytes) : bytes[i] # "0xFF"

(***************************************************************************)
(* json.loads (line 34): a recursive-descent parse of the lexemes.  A       *)
(* result is [ok, val, rest]; whitespace between lexemes is skipped, a      *)
(* repeated key keeps its last value, and text left after the value is an   *)
(* error ("Extra data").                                                   *)
(***************************************************************************)
ParseFail == [ok |-> FALSE, val |-> JNull, rest |-> <<>>]
ParseOk(v, r) == [ok |-> TRUE, val |-> v, rest |-> r]

RECURSIVE SkipWs(_)
SkipWs(s) ==
    IF s = <<>> THEN <<>>
    ELSE IF Head(s) = "\n" THEN SkipWs(Tail(s))
    ELSE <<Head(s)>> \o SkipWs(Tail(s))

\* the element of a one-element set: Only({F(r) : r \in {e}}) is F(e) with e
\* evaluated once
Only(S) == CHOOSE x \in S : TRUE

DictSet(m, k, v) == [x \in (DOMAIN m) \cup {k} |-> IF x = k THEN v ELSE m[x]]

RECURSIVE ParseValue(_), ParseElements(_, _), ParseMembers(_, _)

ParseValue(s) ==
    IF s = <<>> THEN ParseFail
    ELSE IF IsScalarLexeme(Head(s)) THEN ParseOk(ScalarValue(Head(s)), Tail(s))
    ELSE IF Head(s) = "[" THEN
        IF Tail(s) # <<>> /\ Head(Tail(s)) = "]"
        THEN ParseOk(JArr(<<>>), Tail(Tail(s)))
        ELSE ParseElements(Tail(s), <<>>)
    ELSE IF Head(s) = "{" THEN
        IF Tail(s) # <<>> /\ Head(Tail(s)) = "}"
        THEN ParseOk(JObj(<<>>), Tail(Tail(s)))
        ELSE ParseMembers(Tail(s), <<>>)
    ELSE ParseFail

\* the rest of a list after the element parsed as r
AfterElement(r, acc) ==
    IF ~r.ok \/ r.rest = <<>> THEN ParseFail
    ELSE IF Head(r.rest) = "," THEN ParseElements(Tail(r.rest), Append(acc, r.val))
    ELSE IF Head(r.rest) = "]" THEN ParseOk(JArr(Append(acc, r.val)), Tail(r.rest))
    ELSE ParseFail

ParseElements(s, acc) ==
    Only({AfterElement(r, acc) : r \in {ParseValue(s)}})

\* the rest of a dict after the member key: r
AfterMember(key, r, acc) ==
    IF ~r.ok \/ r.rest = <<>> THEN ParseFail
    ELSE IF Head(r.rest) = ","
         THEN ParseMembers(Tail(r.rest), DictSet(acc, KeyName(key), r.val))
    ELSE IF Head(r.rest) = "}"
         THEN ParseOk(JObj(DictSet(acc, KeyName(key), r.val)), Tail(r.rest))
    ELSE ParseFail

ParseMembers(s, acc) ==
    IF s = <<>> \/ Head(s) \notin KeyLexemes THEN ParseFail
    ELSE Only({AfterMember(Head(s), r, acc) : r \in {ParseValue(Tail(s))}})

\* the whole text is one value
WholeText(r) == IF r.ok /\ r.rest = <<>> THEN r ELSE ParseFail

JsonLoads(text) == Only({WholeText(r) : r \in {ParseValue(SkipWs(text))}})

\* json.loads(data.decode('utf-8')) raises (UnicodeDecodeError, JSONDecodeError)
DecodeFails(bytes) == ~Utf8Ok(bytes) \/ ~JsonLoads(bytes).ok

(***************************************************************************)
(* What the clients send.  Payloads is the catalogue used with several      *)
(* connections: one payload per way a message can be well or ill formed.    *)
(* MissionPayloads is every mission of 1..MaxWps waypoints over WpTexts     *)
(* with every combination of the two optional header fields.               *)
(***************************************************************************)
WpBoth == <<"{", "latitude:", "3.5", ",", "longitude:", "4.5", "}">>
WpLat == <<"{", "latitude:", "1.5", "}">>
WpLon == <<"{", "longitude:", "2.5", "}">>
WpNone == <<"{", "}">>
WpTexts == {WpBoth, WpLat, WpLon, WpNone}

Payloads ==
    { <<"{", "\n", "nav_waypoints:", "[">> \o WpBoth \o <<"]", "}">>,
      <<"{", "search_object:", "3", ",", "nav_waypoints:", "[">>
          \o WpLat \o <<",">> \o WpLon \o <<"]", "}", "\n">>,
      <<"{", "nav_waypoints:", "[", "]", "}">>,
      <<"{", "nav_waypoints:", "null", "}">>,
      <<"{", "nav_waypoints:", "{", "}", "}">>,
      <<"{", "nav_waypoints:", "\"\"", "}">>,
      <<"{", "search_pattern:", "2", "}">>,
      <<"{", "nav_waypoints:", "5", "}">>,
      <<"{", "nav_waypoints:", "[">> \o WpLat \o <<",", "5", "]", "}">>,
      <<"[", "5", "]">>,
      <<"x", "x">>,
      <<"{", "0xFF", "}">>,
      <<>> }

HeaderTexts ==
    { <<>>,
      <<"search_object:", "3", ",">>,
      <<"search_pattern:", "2", ",">>,
      <<"search_object:", "3", ",", "search_pattern:", "2", ",">> }

RECURSIVE JoinWps(_)
JoinWps(ws) ==
    IF Len(ws) = 1 THEN ws[1]
    ELSE ws[1] \o <<",">> \o JoinWps(Tail(ws))

MissionText(h, ws) ==
    <<"{">> \o h \o <<"nav_waypoints:", "[">> \o JoinWps(ws) \o <<"]", "}">>

MissionPayloads ==
    { MissionText(h, ws) :
        h \in HeaderTexts,
        ws \in UNION { [1..k -> WpTexts] : k \in 1..MaxWps } }

(***************************************************************************)
(* Python on the decoded value: dict.get, truthiness, len().               *)
(***************************************************************************)
IsDict(v) == v.t = "obj"

\* d.get(k, default)
DictGet(d, k, default) == IF k \in DOMAIN d.m THEN d.m[k] ELSE default

\* "not v"
Falsy(v) ==
    CASE v.t = "null" -> TRUE
      [] v.t = "int" -> v.v = "0"
      [] v.t = "float" -> v.v = "0.0"
      [] v.t = "str" -> v.v = "\"\""
      [] v.t = "bool" -> v.v = "false"
      [] v.t = "arr" -> v.a = <<>>
      [] v.t = "obj" -> DOMAIN v.m = {}

\* len(v) is defined
HasLen(v) == v.t \in {"str", "arr", "obj"}

\* line 42: mission.get('nav_waypoints', [])
Waypoints(mission) == DictGet(mission, "nav_waypoints", JArr(<<>>))

(***************************************************************************)
(* send_mission lines 42-45: "raise" (mission is no dict: no .get; or the   *)
(* waypoints are truthy and have no len()), "return" (no waypoints: warn    *)
(* and return), or "build".                                                *)
(***************************************************************************)
\* a check that catches None only ("if waypoints is None: return")
ValidateNoneOnly(mission) ==
    IF ~IsDict(mission) THEN "raise"
    ELSE IF Waypoints(mission).t = "null" THEN "return"
    ELSE IF ~HasLen(Waypoints(mission)) THEN "raise"
    ELSE "build"

ValidateOutcome(mission) ==
    IF ~IsDict(mission) THEN "raise"
    ELSE IF Falsy(Waypoints(mission)) THEN "return"
    ELSE IF ~HasLen(Waypoints(mission)) THEN "raise"
    ELSE "build"

(***************************************************************************)
(* send_mission lines 46-54: the goal message.                             *)
(***************************************************************************)
\* lines 47-48: the default of search_object and search_pattern
SearchDefaultOne == JInt("5")
SearchDefault == JInt("0")

\* lines 52-53: the default of latitude and longitude
CoordDefault == JFloat("0.0")

\* lines 51-53
BuildWaypoint(wp) ==
    [latitude |-> DictGet(wp, "latitude", CoordDefault),
     longitude |-> DictGet(wp, "longitude", CoordDefault)]

\* lines 50-54: for wp in waypoints: ... goal_msg.nav_waypoints.append(waypoint)
RECURSIVE BuildLoop(_, _)
BuildLoop(wps, acc) ==
    IF wps = <<>> THEN acc
    ELSE BuildLoop(Tail(wps), Append(acc, BuildWaypoint(Head(wps))))

RECURSIVE BuildLoopPrepend(_, _)
BuildLoopPrepend(wps, acc) ==
    IF wps = <<>> THEN acc
    ELSE BuildLoopPrepend(Tail(wps), <<BuildWaypoint(Head(wps))>> \o acc)

BuildWaypointsReversed(wps) == BuildLoopPrepend(wps, <<>>)
BuildWaypoints(wps) == BuildLoop(wps, <<>>)

\* the loop raises: iterating a str or a dict yields strings, and an element
\* that is no dict has no .get (AttributeError)
BuildRaises(mission) ==
    LET w == Waypoints(mission) IN
    \/ w.t # "arr"
    \/ \E i \in 1..Len(w.a) : ~IsDict(w.a[i])

BuildGoal(mission) ==
    [search_object |-> DictGet(mission, "search_object", SearchDefault),
     search_pattern |-> DictGet(mission, "search_pattern", SearchDefault),
     nav_waypoints |-> BuildWaypoints(Waypoints(mission).a)]

NoMission == [t |-> "none"]
NoGoal == [search_object |-> JNull, search_pattern |-> JNull, nav_waypoints |-> <<>>]

(***************************************************************************)
(* The state of the process and of its two neighbours (the TCP clients and  *)
(* the action server).                                                     *)
(***************************************************************************)
VARIABLES
    pc,        \* where the process is: a line of main, run or send_mission
    ok,        \* rclpy.ok(): the rclpy context has not been shut down
    sock,      \* self.sock: "none", "listening"
    raised,    \* the exception that left run() or __init__, or "none"
    backlog,   \* connections the kernel holds for accept()
    nconn,     \* connections accepted so far; they are numbered 1, 2, ...
    conn,      \* run's conn: the number of the connection last accepted
    open,      \* the accepted connections that are not closed
    stream,    \* bytes of the current connection its peer has still to deliver
    data,      \* run's data: the bytes accumulated from conn
    mission,   \* send_mission's mission
    goal_msg,  \* send_mission's goal_msg
    sent,      \* history: the connections send_goal_async was called for, in order
    readDone,  \* history: the connections read to end-of-stream, in order
    goal,      \* action server: the state of the goal of each connection
    reachable, \* action server: wait_for_server would find it
    wire,      \* history: the bytes the peer of conn sends before it closes
    wrote      \* the bytes the process has sent to its connections

vars == <<pc, ok, sock, raised, backlog, nconn, conn, open, stream, data,
          mission, goal_msg, sent, readDone, goal, reachable, wire, wrote>>

Conns == 1..MaxConns

\* the lines of run and send_mission
RunPcs == {"loop", "accept", "recv", "parse", "send_mission", "build",
           "wait_for_server", "send_goal_async", "spin", "result",
           "except", "close"}
\* the lines inside "with conn:"
WithPcs == RunPcs \ {"loop", "accept"}
Init ==
    /\ pc = "main"
    /\ ok = TRUE
    /\ sock = "none"
    /\ raised = "none"
    /\ backlog = 0
    /\ nconn = 0
    /\ conn = 0
    /\ open = {}
    /\ stream = <<>>
    /\ data = <<>>
    /\ mission = NoMission
    /\ goal_msg = NoGoal
    /\ sent = <<>>
    /\ readDone = <<>>
    /\ goal = [c \in Conns |-> "none"]
    /\ reachable = FALSE
    /\ wire = <<>>
    /\ wrote = <<>>

(***************************************************************************)
(* main, line 65, and ROSBridge.__init__: bind and listen succeed, or the   *)
(* OSError of bind leaves main (line 65 is outside the try of line 66).     *)
(***************************************************************************)
Construct ==
    /\ pc = "main"
    /\ \E bound \in BOOLEAN :
         IF bound
         THEN /\ sock' = "listening"
              /\ pc' = "loop"
              /\ raised' = raised
         ELSE /\ sock' = "none"
              /\ pc' = "aborted"
              /\ raised' = "OSError"
    /\ UNCHANGED <<ok, backlog, nconn, conn, open, stream, data, mission,
                   goal_msg, sent, readDone, goal,
                   reachable, wire, wrote>>

\* line 23: while rclpy.ok()
Loop ==
    /\ pc = "loop"
    /\ pc' = IF ok THEN "accept" ELSE "main_finally"
    /\ UNCHANGED <<ok, sock, raised, backlog, nconn, conn, open, stream, data,
                   mission, goal_msg, sent, readDone, goal,
                   reachable, wire, wrote>>

\* lines 24-27: accept returns the next connection of the backlog; its peer
\* is going to send payload
Accept(payloads) ==
    /\ pc = "accept"
    /\ backlog > 0
    /\ backlog' = backlog - 1
    /\ nconn' = nconn + 1
    /\ conn' = nconn + 1
    /\ open' = open \cup {nconn + 1}
    /\ \E payload \in payloads :
         /\ stream' = payload
         /\ wire' = payload
    /\ data' = <<>>
    /\ pc' = "recv"
    /\ UNCHANGED <<ok, sock, raised, mission, goal_msg, sent, readDone, goal,
                   reachable, wrote>>

\* a read loop that also stops at the first newline, before end-of-stream
RecvChunkNewline ==
    /\ pc = "recv"
    /\ \E n \in 1..MaxChunk :
         /\ n <= Len(stream)
         /\ data' = data \o SubSeq(stream, 1, n)
         /\ stream' = SubSeq(stream, n + 1, Len(stream))
    /\ pc' = IF \E i \in 1..Len(data') : data'[i] = "\n" THEN "parse" ELSE pc
    /\ UNCHANGED <<ok, sock, raised, backlog, nconn, conn, open, mission,
                   goal_msg, sent, readDone, goal,
                   reachable, wire, wrote>>

\* lines 29-32: recv returns a chunk that is not empty
RecvChunk ==
    /\ pc = "recv"
    /\ \E n \in 1..MaxChunk :
         /\ n <= Len(stream)
         /\ data' = data \o SubSeq(stream, 1, n)
         /\ stream' = SubSeq(stream, n + 1, Len(stream))
    /\ UNCHANGED <<pc, ok, sock, raised, backlog, nconn, conn, open, mission,
                   goal_msg, sent, readDone, goal,
                   reachable, wire, wrote>>

\* lines 29-31: recv returns b'' (the peer closed its side and every byte
\* was delivered): break
RecvEof ==
    /\ pc = "recv"
    /\ stream = <<>>
    /\ readDone' = Append(readDone, conn)
    /\ pc' = "parse"
    /\ UNCHANGED <<ok, sock, raised, backlog, nconn, conn, open, stream, data,
                   mission, goal_msg, sent, goal,
                   reachable, wire, wrote>>

\* the effect of an exception that nothing in run catches: "with conn"
\* closes the connection, and the exception leaves run for main
Uncaught(exc) ==
    /\ raised' = exc
    /\ open' = IF pc \in WithPcs THEN open \ {conn} ELSE open
    /\ pc' = "main_finally"

\* line 29: recv raises (ConnectionResetError: the peer reset the
\* connection).  The read loop is outside the try of line 33.
RecvError ==
    /\ pc = "recv"
    /\ Uncaught("OSError")
    /\ UNCHANGED <<ok, sock, backlog, nconn, conn, stream, data, mission,
                   goal_msg, sent, readDone, goal,
                   reachable, wire, wrote>>

\* line 34: json.loads(data.decode('utf-8'))
Parse ==
    /\ pc = "parse"
    /\ IF DecodeFails(data)
       THEN /\ pc' = "except"
            /\ mission' = mission
       ELSE /\ pc' = "send_mission"
            /\ mission' = JsonLoads(data).val
    /\ UNCHANGED <<ok, sock, raised, backlog, nconn, conn, open, stream, data,
                   goal_msg, sent, readDone, goal,
                   reachable, wire, wrote>>

\* lines 42-45
Validate ==
    /\ pc = "send_mission"
    /\ pc' = CASE ValidateOutcome(mission) = "raise" -> "except"
               [] ValidateOutcome(mission) = "return" -> "close"
               [] ValidateOutcome(mission) = "build" -> "build"
    /\ UNCHANGED <<ok, sock, raised, backlog, nconn, conn, open, stream, data,
                   mission, goal_msg, sent, readDone, goal,
                   reachable, wire, wrote>>

\* lines 46-55
Build ==
    /\ pc = "build"
    /\ IF BuildRaises(mission)
       THEN /\ pc' = "except"
            /\ goal_msg' = goal_msg
       ELSE /\ pc' = "wait_for_server"
            /\ goal_msg' = BuildGoal(mission)
    /\ UNCHANGED <<ok, sock, raised, backlog, nconn, conn, open, stream, data,
                   mission, sent, readDone, goal,
                   reachable, wire, wrote>>

\* wait_for_server with a timeout: it returns although no server is there
WaitForServerTimeout ==
    /\ pc = "wait_for_server"
    /\ pc' = "send_goal_async"
    /\ UNCHANGED <<ok, sock, raised, backlog, nconn, conn, open, stream, data,
                   mission, goal_msg, sent, readDone, goal,
                   reachable, wire, wrote>>

\* line 56: wait_for_server() is called without a timeout: it returns when
\* the action server is reachable (rclpy also returns from it when the
\* context is shut down)
WaitForServer ==
    /\ pc = "wait_for_server"
    /\ reachable \/ ~ok
    /\ pc' = "send_goal_async"
    /\ UNCHANGED <<ok, sock, raised, backlog, nconn, conn, open, stream, data,
                   mission, goal_msg, sent, readDone, goal,
                   reachable, wire, wrote>>

\* line 57: send_goal_async(goal_msg) is called; it returns a future and the
\* goal request is on its way, or it raises
SendGoal ==
    /\ pc = "send_goal_async"
    /\ sent' = Append(sent, conn)
    /\ \/ /\ goal' = [goal EXCEPT ![conn] = "pending"]
          /\ pc' = "spin"
       \/ /\ goal' = goal
          /\ pc' = "except"
    /\ UNCHANGED <<ok, sock, raised, backlog, nconn, conn, open, stream, data,
                   mission, goal_msg, readDone,
                   reachable, wire, wrote>>

\* line 58: spin_until_future_complete returns: the future of
\* send_goal_async is done, which it is when the server has accepted or
\* rejected the goal (rclpy also returns when the context is shut down)
Spin ==
    /\ pc = "spin"
    /\ goal[conn] # "pending" \/ ~ok
    /\ pc' = "result"
    /\ UNCHANGED <<ok, sock, raised, backlog, nconn, conn, open, stream, data,
                   mission, goal_msg, sent, readDone, goal,
                   reachable, wire, wrote>>

\* a second submission when the goal was rejected
ResultRetry ==
    /\ pc = "result"
    /\ pc' = IF goal[conn] = "rejected" THEN "send_goal_async" ELSE "close"
    /\ UNCHANGED <<ok, sock, raised, backlog, nconn, conn, open, stream, data,
                   mission, goal_msg, sent, readDone, goal,
                   reachable, wire, wrote>>

\* lines 59-60: future.result() returns the goal handle (accepted or not);
\* it is logged and send_mission returns
Result ==
    /\ pc = "result"
    /\ pc' = "close"
    /\ UNCHANGED <<ok, sock, raised, backlog, nconn, conn, open, stream, data,
                   mission, goal_msg, sent, readDone, goal,
                   reachable, wire, wrote>>

\* an exception that is not caught in run
DispatchRaiseUncaught ==
    /\ pc \in {"wait_for_server", "spin", "result"}
    /\ Uncaught("Exception")
    /\ UNCHANGED <<ok, sock, backlog, nconn, conn, stream, data, mission,
                   goal_msg, sent, readDone, goal,
                   reachable, wire, wrote>>

\* lines 56, 58, 59: the call raises an Exception; line 37 catches it
DispatchRaise ==
    /\ pc \in {"wait_for_server", "spin", "result"}
    /\ pc' = "except"
    /\ UNCHANGED <<ok, sock, raised, backlog, nconn, conn, open, stream, data,
                   mission, goal_msg, sent, readDone, goal,
                   reachable, wire, wrote>>

\* a handler that logs and raises again
ExceptReraise ==
    /\ pc = "except"
    /\ Uncaught("Exception")
    /\ UNCHANGED <<ok, sock, backlog, nconn, conn, stream, data, mission,
                   goal_msg, sent, readDone, goal,
                   reachable, wire, wrote>>

\* lines 37-38: except Exception: log the error
Except ==
    /\ pc = "except"
    /\ pc' = "close"
    /\ UNCHANGED <<ok, sock, raised, backlog, nconn, conn, open, stream, data,
                   mission, goal_msg, sent, readDone, goal,
                   reachable, wire, wrote>>

\* an acknowledgement sent to the client before the block ends
CloseWithAck ==
    /\ pc = "close"
    /\ wrote' = Append(wrote, conn)
    /\ open' = open \ {conn}
    /\ pc' = "loop"
    /\ data' = <<>>
    /\ mission' = NoMission
    /\ goal_msg' = NoGoal
    /\ wire' = <<>>
    /\ UNCHANGED <<ok, sock, raised, backlog, nconn, conn, stream, sent,
                   readDone, goal, reachable>>

\* the end of the block without closing the connection
CloseLeak ==
    /\ pc = "close"
    /\ pc' = "loop"
    /\ data' = <<>>
    /\ mission' = NoMission
    /\ goal_msg' = NoGoal
    /\ wire' = <<>>
    /\ UNCHANGED <<ok, sock, raised, backlog, nconn, conn, open, stream, sent,
                   readDone, goal,
                   reachable, wrote>>

\* line 25: the end of "with conn:" closes the connection.  data, mission
\* and goal_msg are not read again (line 27 resets data; the other two are
\* locals of send_mission): the model forgets them, and the history of the
\* connection's bytes, here.
Close ==
    /\ pc = "close"
    /\ open' = open \ {conn}
    /\ pc' = "loop"
    /\ data' = <<>>
    /\ mission' = NoMission
    /\ goal_msg' = NoGoal
    /\ wire' = <<>>
    /\ UNCHANGED <<ok, sock, raised, backlog, nconn, conn, stream, sent,
                   readDone, goal,
                   reachable, wrote>>

\* lines 68-69: a KeyboardInterrupt arrives anywhere in run; nothing in run
\* catches it (line 37 catches Exception only), main does
Interrupt ==
    /\ pc \in RunPcs
    /\ Uncaught("KeyboardInterrupt")
    /\ UNCHANGED <<ok, sock, backlog, nconn, conn, stream, data, mission,
                   goal_msg, sent, readDone, goal,
                   reachable, wire, wrote>>

\* lines 70-72: finally: destroy_node(), rclpy.shutdown().  self.sock is not
\* closed by any line of the program.
MainFinally ==
    /\ pc = "main_finally"
    /\ ok' = FALSE
    /\ pc' = "exited"
    /\ UNCHANGED <<sock, raised, backlog, nconn, conn, open, stream, data,
                   mission, goal_msg, sent, readDone, goal,
                   reachable, wire, wrote>>

(***************************************************************************)
(* The neighbours.                                                         *)
(***************************************************************************)
\* the rclpy context is shut down from outside run (rclpy's own signal
\* handler): rclpy.ok() of line 23 becomes false
ContextShutdown ==
    /\ pc \in RunPcs
    /\ ok
    /\ ok' = FALSE
    /\ UNCHANGED <<pc, sock, raised, backlog, nconn, conn, open, stream, data,
                   mission, goal_msg, sent, readDone, goal,
                   reachable, wire, wrote>>

\* a client connects to the listening socket (at most cap in a run)
ClientConnect(cap) ==
    /\ pc \in RunPcs
    /\ sock = "listening"
    /\ backlog < Backlog
    /\ nconn + backlog < cap
    /\ backlog' = backlog + 1
    /\ UNCHANGED <<pc, ok, sock, raised, nconn, conn, open, stream, data,
                   mission, goal_msg, sent, readDone, goal,
                   reachable, wire, wrote>>

\* the peer closes its side before it has sent everything (it sends FIN
\* early): what it had still to send is never delivered
PeerClose ==
    /\ pc = "recv"
    /\ stream # <<>>
    /\ stream' = <<>>
    /\ wire' = data
    /\ UNCHANGED <<pc, ok, sock, raised, backlog, nconn, conn, open, data,
                   mission, goal_msg, sent, readDone, goal,
                   reachable, wrote>>

\* the action server comes up: the client of line 15 can reach it
ServerUp ==
    /\ ~reachable
    /\ reachable' = TRUE
    /\ UNCHANGED <<pc, ok, sock, raised, backlog, nconn, conn, open, stream,
                   data, mission, goal_msg, sent, readDone, goal, wire, wrote>>

\* the action server goes away
ServerDown ==
    /\ reachable
    /\ reachable' = FALSE
    /\ UNCHANGED <<pc, ok, sock, raised, backlog, nconn, conn, open, stream,
                   data, mission, goal_msg, sent, readDone, goal, wire, wrote>>

\* the action server answers a goal request: accepted or rejected
ServerRespond ==
    \E c \in Conns :
       /\ reachable
       /\ goal[c] = "pending"
       /\ \E answer \in {"accepted", "rejected"} :
            goal' = [goal EXCEPT ![c] = answer]
       /\ UNCHANGED <<pc, ok, sock, raised, backlog, nconn, conn, open, stream,
                      data, mission, goal_msg, sent, readDone,
                   reachable, wire, wrote>>

\* the action server finishes an accepted goal (its result is ready)
ServerFinish ==
    \E c \in Conns :
       /\ goal[c] = "accepted"
       /\ goal' = [goal EXCEPT ![c] = "done"]
       /\ UNCHANGED <<pc, ok, sock, raised, backlog, nconn, conn, open, stream,
                      data, mission, goal_msg, sent, readDone,
                   reachable, wire, wrote>>

Bridge ==
    \/ Construct \/ Loop \/ RecvChunk \/ RecvEof \/ RecvError \/ Parse
    \/ Validate \/ Build \/ WaitForServer \/ SendGoal \/ Spin \/ Result
    \/ DispatchRaise \/ Except \/ Close \/ Interrupt \/ MainFinally

Neighbours ==
    \/ ContextShutdown \/ PeerClose \/ ServerUp \/ ServerDown
    \/ ServerRespond \/ ServerFinish

\* the run loop over MaxConns connections with the payloads of the catalogue
Next ==
    \/ Bridge \/ Neighbours
    \/ ClientConnect(MaxConns) \/ Accept(Payloads)

Spec == Init /\ [][Next]_vars

\* one connection carrying any of the generated missions
NextMission ==
    \/ Bridge \/ Neighbours
    \/ ClientConnect(1) \/ Accept(MissionPayloads)

SpecMission == Init /\ [][NextMission]_vars

(***************************************************************************)
(* The same program under the scheduling the interpreter gives it: a step   *)
(* of the process that does not wait for a client or for the action server  *)
(* is eventually taken.  Nothing is assumed of the clients, of the action   *)
(* server or of the operator.                                              *)
(***************************************************************************)
Fairness ==
    /\ WF_vars(Loop) /\ WF_vars(Parse) /\ WF_vars(Validate) /\ WF_vars(Build)
    /\ WF_vars(SendGoal) /\ WF_vars(Result) /\ WF_vars(Except)
    /\ WF_vars(Close) /\ WF_vars(MainFinally)

LiveSpec == Spec /\ Fairness

(***************************************************************************)
(* The diagnostic server, test_mission_server.py: start_server.  It is a    *)
(* program of its own, run instead of the bridge on the same port, and its  *)
(* state is of the same kind: sock is its socket s, conn, open, stream and  *)
(* wire are its connection, data is data_str and mission is mission_data.   *)
(* It has no ROS node: ok, goal_msg, sent, readDone, goal and reachable     *)
(* keep their initial values.                                              *)
(***************************************************************************)
InitDiag ==
    /\ pc = "start_server"
    /\ ok = TRUE
    /\ sock = "none"
    /\ raised = "none"
    /\ backlog = 0
    /\ nconn = 0
    /\ conn = 0
    /\ open = {}
    /\ stream = <<>>
    /\ data = <<>>
    /\ mission = NoMission
    /\ goal_msg = NoGoal
    /\ sent = <<>>
    /\ readDone = <<>>
    /\ goal = [c \in Conns |-> "none"]
    /\ reachable = FALSE
    /\ wire = <<>>
    /\ wrote = <<>>

\* what the diagnostic server does not have
NoNode == <<ok, goal_msg, sent, readDone, goal, reachable, wrote>>

\* what the clients of the diagnostic server send: a line, a line with text
\* after the newline, a text that ends at end-of-stream, a newline first,
\* two lines, text that is not JSON, a byte that is not UTF-8, nothing
DiagPayloads ==
    { <<"{", "nav_waypoints:", "[">> \o WpLat \o <<"]", "}", "\n">>,
      <<"{", "}", "\n", "x">>,
      <<"{", "nav_waypoints:", "[", "]", "}">>,
      <<"\n", "{", "}">>,
      <<"[", "5", "]", "\n", "[", "5", "]", "\n">>,
      <<"x", "\n">>,
      <<"{", "0xFF", "}", "\n">>,
      <<>> }

\* the pcs of the loop of line 22, inside the try of line 23
DiagLoopPcs == {"diag_accept", "diag_recv", "diag_loads", "diag_end"}

\* line 37: "\n" in data_str
HasNewline(text) == \E i \in 1..Len(text) : text[i] = "\n"

\* str.strip() (line 41): the text without its leading and trailing
\* whitespace
RECURSIVE LStrip(_)
LStrip(text) ==
    IF text # <<>> /\ Head(text) = "\n" THEN LStrip(Tail(text)) ELSE text

RECURSIVE RStrip(_)
RStrip(text) ==
    IF text # <<>> /\ text[Len(text)] = "\n"
    THEN RStrip(SubSeq(text, 1, Len(text) - 1))
    ELSE text

Strip(text) == RStrip(LStrip(text))

\* the text up to the first newline
RECURSIVE FirstLine(_)
FirstLine(text) ==
    IF text = <<>> \/ Head(text) = "\n" THEN <<>>
    ELSE <<Head(text)>> \o FirstLine(Tail(text))

\* a bind failure that is not caught
DiagBindFatal ==
    /\ pc = "start_server"
    /\ \E bound \in BOOLEAN :
         IF bound
         THEN /\ sock' = "bound"
              /\ pc' = "diag_listen"
              /\ raised' = raised
         ELSE /\ sock' = "closed"
              /\ pc' = "diag_crashed"
              /\ raised' = "OSError"
    /\ UNCHANGED <<backlog, nconn, conn, open, stream, data, mission, wire>>
    /\ UNCHANGED NoNode

\* lines 10-16: the socket is created and bound; a bind that fails raises
\* OSError, which line 15 catches and line 16 prints
DiagBind ==
    /\ pc = "start_server"
    /\ \E bound \in BOOLEAN :
         sock' = IF bound THEN "bound" ELSE "bind_failed"
    /\ pc' = "diag_listen"
    /\ UNCHANGED <<raised, backlog, nconn, conn, open, stream, data, mission,
                   wire>>
    /\ UNCHANGED NoNode

\* lines 17-20: listen, settimeout, "Server live at".  listen on a socket
\* that is not bound makes the system bind it to a port of its choice: the
\* socket listens, on a port that is not PORT.
DiagListen ==
    /\ pc = "diag_listen"
    /\ sock' = IF sock = "bound" THEN "listening" ELSE "listening_unbound"
    /\ pc' = "diag_accept"
    /\ UNCHANGED <<raised, backlog, nconn, conn, open, stream, data, mission,
                   wire>>
    /\ UNCHANGED NoNode

\* lines 24-31: accept returns a connection (while there is none it times
\* out every second and line 27 calls it again, which changes nothing)
DiagAccept ==
    /\ pc = "diag_accept"
    /\ backlog > 0
    /\ backlog' = backlog - 1
    /\ nconn' = nconn + 1
    /\ conn' = nconn + 1
    /\ open' = open \cup {nconn + 1}
    /\ \E payload \in DiagPayloads :
         /\ stream' = payload
         /\ wire' = payload
    /\ data' = <<>>
    /\ pc' = "diag_recv"
    /\ UNCHANGED <<sock, raised, mission>>
    /\ UNCHANGED NoNode

\* an exception that nothing in start_server catches: "with conn" and
\* "with ... as s" close the connection and the socket on the way out
DiagUncaught(exc) ==
    /\ raised' = exc
    /\ open' = open \ {conn}
    /\ sock' = "closed"
    /\ pc' = "diag_crashed"

\* a read loop that goes on to end-of-stream whatever it has received
DiagRecvToEof ==
    /\ pc = "diag_recv"
    /\ \E n \in 1..MaxChunk :
         /\ n <= Len(stream)
         /\ Utf8Ok(SubSeq(stream, 1, n))
         /\ data' = data \o SubSeq(stream, 1, n)
         /\ stream' = SubSeq(stream, n + 1, Len(stream))
    /\ UNCHANGED <<pc, sock, raised, backlog, nconn, conn, open, mission,
                   wire>>
    /\ UNCHANGED NoNode

\* lines 33-37: recv returns a chunk that is not empty and is decoded on its
\* own; a chunk that is not UTF-8 raises UnicodeDecodeError, which is no
\* JSONDecodeError and no KeyboardInterrupt.  Otherwise it is appended, and
\* the loop ends when data_str has a newline.
DiagRecv ==
    /\ pc = "diag_recv"
    /\ \E n \in 1..MaxChunk :
         /\ n <= Len(stream)
         /\ IF Utf8Ok(SubSeq(stream, 1, n))
            THEN /\ data' = data \o SubSeq(stream, 1, n)
                 /\ stream' = SubSeq(stream, n + 1, Len(stream))
                 /\ pc' = IF HasNewline(data') THEN "diag_loads" ELSE pc
                 /\ UNCHANGED <<sock, raised, open>>
            ELSE /\ DiagUncaught("UnicodeDecodeError")
                 /\ UNCHANGED <<data, stream>>
    /\ UNCHANGED <<backlog, nconn, conn, mission, wire>>
    /\ UNCHANGED NoNode

\* lines 33-34: recv returns b'' (end-of-stream): break
DiagRecvEof ==
    /\ pc = "diag_recv"
    /\ stream = <<>>
    /\ pc' = "diag_loads"
    /\ UNCHANGED <<sock, raised, backlog, nconn, conn, open, stream, data,
                   mission, wire>>
    /\ UNCHANGED NoNode

\* line 33: recv raises (the peer reset the connection)
DiagRecvError ==
    /\ pc = "diag_recv"
    /\ DiagUncaught("OSError")
    /\ UNCHANGED <<backlog, nconn, conn, stream, data, mission, wire>>
    /\ UNCHANGED NoNode

\* lines 39-45: json.loads(data_str.strip()); the value is printed, or
\* JSONDecodeError is caught and the text is printed as an error
DiagLoads ==
    /\ pc = "diag_loads"
    /\ mission' = IF JsonLoads(Strip(data)).ok
                  THEN JsonLoads(Strip(data)).val
                  ELSE NoMission
    /\ pc' = "diag_end"
    /\ UNCHANGED <<sock, raised, backlog, nconn, conn, open, stream, data,
                   wire>>
    /\ UNCHANGED NoNode

\* line 29: the end of "with conn" closes the connection; the loop of line
\* 22 goes on
DiagEnd ==
    /\ pc = "diag_end"
    /\ open' = open \ {conn}
    /\ pc' = "diag_accept"
    /\ data' = <<>>
    /\ mission' = NoMission
    /\ wire' = <<>>
    /\ UNCHANGED <<sock, raised, backlog, nconn, conn, stream>>
    /\ UNCHANGED NoNode

\* lines 47-49: a KeyboardInterrupt in the loop is caught: "with conn" has
\* closed the connection, break leaves the loop and "with ... as s" closes
\* the socket
DiagInterrupt ==
    /\ pc \in DiagLoopPcs
    /\ open' = open \ {conn}
    /\ sock' = "closed"
    /\ pc' = "diag_stopped"
    /\ UNCHANGED <<raised, backlog, nconn, conn, stream, data, mission, wire>>
    /\ UNCHANGED NoNode

\* a client connects to PORT: it reaches the server when the server is the
\* one bound to PORT
DiagClientConnect ==
    /\ pc \in DiagLoopPcs
    /\ sock = "listening"
    /\ backlog < Backlog
    /\ nconn + backlog < MaxConns
    /\ backlog' = backlog + 1
    /\ UNCHANGED <<pc, sock, raised, nconn, conn, open, stream, data, mission,
                   wire>>
    /\ UNCHANGED NoNode

\* the peer closes its side before it has sent everything
DiagPeerClose ==
    /\ pc = "diag_recv"
    /\ stream # <<>>
    /\ stream' = <<>>
    /\ wire' = data
    /\ UNCHANGED <<pc, sock, raised, backlog, nconn, conn, open, data,
                   mission>>
    /\ UNCHANGED NoNode

NextDiag ==
    \/ DiagBind \/ DiagListen \/ DiagAccept \/ DiagRecv \/ DiagRecvEof
    \/ DiagRecvError \/ DiagLoads \/ DiagEnd \/ DiagInterrupt
    \/ DiagClientConnect \/ DiagPeerClose

SpecDiag == InitDiag /\ [][NextDiag]_vars

(***************************************************************************)
(* Vocabulary of the properties.                                           *)
(***************************************************************************)
Range(s) == {s[i] : i \in 1..Len(s)}
Count(c, s) == Cardinality({i \in 1..Len(s) : s[i] = c})
\* the place of c in s, 0 when it is not there
Pos(c, s) == IF c \in Range(s) THEN CHOOSE i \in 1..Len(s) : s[i] = c ELSE 0

\* send_mission has built the goal and is at, or past, the action client
DispatchPcs == {"wait_for_server", "send_goal_async", "spin", "result"}

\* the operator stopped the bridge: Ctrl-C, or the context shut down
OperatorStop == raised = "KeyboardInterrupt" \/ (raised = "none" /\ ~ok)

\* the loop is back in accept with the connection closed
NextAccept == pc = "accept" /\ open = {}

\* a decoded mission whose nav_waypoints is absent, null or empty (an empty
\* list, dict or string)
NoWaypoints(m) ==
    /\ m.t = "obj"
    /\ \/ "nav_waypoints" \notin DOMAIN m.m
       \/ m.m["nav_waypoints"].t = "null"
       \/ m.m["nav_waypoints"].t = "arr" /\ m.m["nav_waypoints"].a = <<>>
       \/ m.m["nav_waypoints"].t = "obj" /\ DOMAIN m.m["nav_waypoints"].m = {}
       \/ m.m["nav_waypoints"].t = "str" /\ m.m["nav_waypoints"].v = "\"\""

\* a decoded mission with n >= 1 waypoint objects
HasWaypointObjects(m) ==
    /\ m.t = "obj"
    /\ "nav_waypoints" \in DOMAIN m.m
    /\ m.m["nav_waypoints"].t = "arr"
    /\ m.m["nav_waypoints"].a # <<>>
    /\ \A i \in 1..Len(m.m["nav_waypoints"].a) : m.m["nav_waypoints"].a[i].t = "obj"

(***************************************************************************)
(* C1.  A connection whose decoded payload is a JSON object with            *)
(* nav_waypoints absent, null or empty: send_mission returns at line 45.   *)
(* No send_goal_async call is made for the connection, the action client   *)
(* is not reached and the handler of line 37 is not entered (no            *)
(* exception).                                                             *)
(***************************************************************************)
C1_NoWaypointsNoDispatch ==
    NoWaypoints(mission) =>
        /\ conn \notin Range(sent)
        /\ pc \notin DispatchPcs \cup {"build", "except"}
        /\ raised \in {"none", "KeyboardInterrupt"}

C1_Witness ==
    /\ pc = "close"
    /\ NoWaypoints(mission)
    /\ "nav_waypoints" \in DOMAIN mission.m
    /\ conn \in Range(readDone)

(***************************************************************************)
(* C2.  A connection whose accumulated bytes fail UTF-8 or JSON decoding    *)
(* (the empty buffer included): no send_goal_async call is made for it,     *)
(* and from the failing decode the loop comes back to accept with the       *)
(* connection closed, unless the operator stops the bridge.                *)
(***************************************************************************)
C2_MalformedDropped ==
    /\ [](pc \in {"parse", "except", "close"} /\ DecodeFails(data)
            => conn \notin Range(sent))
    /\ ((pc = "parse" /\ DecodeFails(data)) ~> (NextAccept \/ OperatorStop))

C2_Witness ==
    /\ pc = "close"
    /\ DecodeFails(data)
    /\ conn \in Range(readDone)
    /\ open = {conn}
    /\ raised = "none" /\ ok

(***************************************************************************)
(* C3.  Dispatch does not return before the goal is rejected or, when       *)
(* accepted, has reached completion: when future.result() returns and       *)
(* send_mission returns with it (lines 59-60, the context not shut down),   *)
(* the goal of the connection is rejected or done.                         *)
(***************************************************************************)
C3_DispatchAwaitsCompletion ==
    [][(pc = "result" /\ pc' = "close" /\ ok)
          => goal[conn] \in {"rejected", "done"}]_vars

(***************************************************************************)
(* C4.  A read error on an accepted connection ends the reading of that     *)
(* connection only: reading is left for the decoder (the bytes accumulated  *)
(* so far go to json.loads), or by the operator's interrupt, never by the   *)
(* error leaving run.                                                      *)
(***************************************************************************)
C4_ReadErrorHandled ==
    [][(pc = "recv" /\ pc' # "recv")
          => (pc' = "parse" \/ raised' = "KeyboardInterrupt")]_vars

(***************************************************************************)
(* C5.  A failing dispatch (wait_for_server, send_goal_async,               *)
(* spin_until_future_complete or future.result() raises, or the goal is     *)
(* rejected) is handled within its connection: no Exception leaves run, no  *)
(* second submission is made for a connection that has one, and from the    *)
(* failure the loop comes back to accept with the connection closed,        *)
(* unless the operator stops the bridge.                                   *)
(***************************************************************************)
DispatchFailed ==
    \/ pc = "except" /\ goal_msg # NoGoal
    \/ pc = "result" /\ goal[conn] = "rejected"

C5_DispatchFailureHandled ==
    /\ [](raised # "Exception")
    /\ [][sent' # sent => conn \notin Range(sent)]_vars
    /\ (DispatchFailed ~> (NextAccept \/ OperatorStop))

C5_Witness ==
    /\ pc = "close"
    /\ goal_msg # NoGoal
    /\ goal[conn] = "rejected"
    /\ Count(conn, sent) = 1
    /\ raised = "none" /\ ok

(***************************************************************************)
(* C6.  send_goal_async is called at most once for each accepted            *)
(* connection, only for accepted connections, and never more often in       *)
(* total than connections were read to end-of-stream.                      *)
(***************************************************************************)
C6_AtMostOneSubmission ==
    /\ \A c \in 1..nconn : Count(c, sent) <= 1
    /\ Range(sent) \subseteq 1..nconn
    /\ Len(sent) <= Len(readDone)

C6_Witness ==
    /\ nconn = 2
    /\ pc = "close"
    /\ Count(1, sent) = 1
    /\ Count(2, sent) = 0
    /\ Len(readDone) = 2

(***************************************************************************)
(* C7.  At most one accepted connection is open, and it is the one last     *)
(* accepted; when the bridge is in accept, no accepted connection is open   *)
(* and every connection accepted before was read to end-of-stream.         *)
(***************************************************************************)
C7_OneConnectionAtATime ==
    /\ Cardinality(open) <= 1
    /\ open \subseteq {conn}
    /\ pc = "accept" => /\ open = {}
                        /\ \A c \in 1..nconn : c \in Range(readDone)
    /\ pc \in DispatchPcs => conn \in Range(readDone)

C7_Witness ==
    /\ pc = "recv"
    /\ nconn = 2
    /\ open = {2}
    /\ readDone = <<1>>

C9_WaypointsPreserved ==
    (pc \in DispatchPcs /\ HasWaypointObjects(mission)) =>
        /\ Len(goal_msg.nav_waypoints) = Len(mission.m["nav_waypoints"].a)
        /\ \A i \in 1..Len(mission.m["nav_waypoints"].a) :
             \A k \in DOMAIN mission.m["nav_waypoints"].a[i].m :
                goal_msg.nav_waypoints[i][k] = mission.m["nav_waypoints"].a[i].m[k]

C9_Witness ==
    /\ pc = "spin"
    /\ Len(goal_msg.nav_waypoints) >= 2
    /\ goal_msg.nav_waypoints[1] # goal_msg.nav_waypoints[2]
    /\ conn \in Range(sent)

(***************************************************************************)
(* C10.  A decoded mission with at least one waypoint object: it reaches    *)
(* the action client whatever optional field is missing (the handler is     *)
(* entered, or send_mission returns, only after the goal was built), and   *)
(* in the goal search_object and search_pattern are 0 when absent, each     *)
(* latitude and longitude is 0.0 when absent, and a field that is present   *)
(* has the value of the payload.                                           *)
(***************************************************************************)
FieldOr(d, k, default) == IF k \in DOMAIN d THEN d[k] ELSE default

C10_DefaultsApplied ==
    HasWaypointObjects(mission) =>
        /\ pc \in {"except", "close"} => goal_msg # NoGoal
        /\ pc \in DispatchPcs =>
             /\ goal_msg.search_object
                  = FieldOr(mission.m, "search_object", [t |-> "int", v |-> "0"])
             /\ goal_msg.search_pattern
                  = FieldOr(mission.m, "search_pattern", [t |-> "int", v |-> "0"])
             /\ \A i \in 1..Len(mission.m["nav_waypoints"].a) :
                  /\ goal_msg.nav_waypoints[i].latitude
                       = FieldOr(mission.m["nav_waypoints"].a[i].m, "latitude",
                                 [t |-> "float", v |-> "0.0"])
                  /\ goal_msg.nav_waypoints[i].longitude
                       = FieldOr(mission.m["nav_waypoints"].a[i].m, "longitude",
                                 [t |-> "float", v |-> "0.0"])

C10_Witness ==
    /\ pc = "spin"
    /\ DOMAIN mission.m = {"nav_waypoints"}
    /\ goal_msg.search_object.v = "0"
    /\ \E i \in 1..Len(goal_msg.nav_waypoints) :
         /\ DOMAIN mission.m["nav_waypoints"].a[i].m = {"longitude"}
         /\ goal_msg.nav_waypoints[i].latitude.v = "0.0"
         /\ goal_msg.nav_waypoints[i].longitude.v = "2.5"

(***************************************************************************)
(* C11.  A connection whose bytes reached the translator (line 34 and,     *)
(* from it, send_mission) stays open while the translator runs; when the    *)
(* translator has returned or raised (decode failure, no waypoints,         *)
(* dispatch done, goal rejected, dispatch error) the connection is closed,  *)
(* a run that goes on closes a connection only at the end of the            *)
(* "with conn" block, and accept is not called with a connection open.      *)
(***************************************************************************)
TranslatorPcs == {"parse", "send_mission", "build"} \cup DispatchPcs

TranslatorReturned == pc \in {"except", "close"}

C11_ClosedAfterTranslator ==
    /\ [](pc \in TranslatorPcs \/ TranslatorReturned => conn \in open)
    /\ [][(conn \in open /\ conn \notin open' /\ raised' = "none")
             => (pc = "close" /\ pc' = "loop")]_vars
    /\ [](pc = "accept" => open = {})
    /\ (TranslatorReturned ~> conn \notin open)

C11_Witness ==
    /\ pc = "accept"
    /\ conn \in Range(sent)
    /\ goal[conn] = "rejected"
    /\ conn \notin open
    /\ raised = "none" /\ ok

(***************************************************************************)
(* C12.  No statement of run or send_mission sends on conn (conn is only    *)
(* read, lines 29, and closed, line 25): nothing is ever written to a       *)
(* connection, and once a connection is handled, whatever its outcome, it   *)
(* is closed.                                                              *)
(***************************************************************************)
C12_NothingWritten ==
    /\ wrote = <<>>
    /\ (pc \in {"loop", "accept"} => \A c \in 1..nconn : c \notin open)

C12_Witness ==
    /\ pc = "loop"
    /\ nconn = 2
    /\ 1 \in Range(sent) /\ goal[1] = "accepted"
    /\ 2 \notin Range(sent)
    /\ open = {}
    /\ wrote = <<>>

(***************************************************************************)
(* C13.  After a KeyboardInterrupt in the run loop the process has left     *)
(* the loop, and when main is done (line 72) every resource is closed: no   *)
(* connection is open and the listening socket is not listening any more.  *)
(***************************************************************************)
C13_InterruptClosesAll ==
    (pc = "exited" /\ raised = "KeyboardInterrupt")
        => (open = {} /\ sock # "listening")

(***************************************************************************)
(* C14.  send_mission is in the action client only for a connection that    *)
(* was read to its end and carries at least one waypoint object, and that   *)
(* connection stays open and is the last one accepted.  While the action    *)
(* server is not reachable (line 56), or has not answered the goal (line    *)
(* 58), and the context is not shut down, the process stays in that call:   *)
(* it leaves it only with an exception the call raises or with the          *)
(* operator's KeyboardInterrupt, never because time has passed.             *)
(***************************************************************************)
BlockedInDispatch ==
    /\ ok
    /\ \/ pc = "wait_for_server" /\ ~reachable
       \/ pc = "spin" /\ goal[conn] = "pending"

C14_BlocksWithoutServer ==
    /\ [](pc \in DispatchPcs =>
            /\ conn \in Range(readDone)
            /\ HasWaypointObjects(mission)
            /\ conn \in open
            /\ nconn = conn)
    /\ [][(BlockedInDispatch /\ pc' # pc)
             => (pc' = "except" \/ raised' = "KeyboardInterrupt")]_vars

C14_Witness ==
    /\ pc = "wait_for_server"
    /\ ~reachable /\ ok
    /\ backlog = 1
    /\ conn = 1 /\ open = {1}
    /\ Len(goal_msg.nav_waypoints) = 2

(***************************************************************************)
(* C15.  A bind or listen failure in the constructor aborts the process     *)
(* before the accept loop (no connection is ever accepted), and it is the   *)
(* only error that ends the process: an error is raised out of run only in  *)
(* the aborted start.                                                      *)
(***************************************************************************)
C15_OnlyStartupFatal ==
    /\ pc = "aborted" => (nconn = 0 /\ sock # "listening")
    /\ raised \in {"OSError", "Exception"} => pc = "aborted"

(***************************************************************************)
(* C16.  While a connection is read, what was received so far followed by   *)
(* what the peer has still to deliver is what the peer sends; the read      *)
(* loop ends only when every byte was delivered, and from json.loads on     *)
(* (line 34) data is the whole of it, in order, newlines included.          *)
(***************************************************************************)
C16_BufferIsWholeStream ==
    /\ pc = "recv" => data \o stream = wire
    /\ pc \in TranslatorPcs \/ TranslatorReturned =>
          /\ stream = <<>>
          /\ data = wire
          /\ conn \in Range(readDone)

C16_Witness ==
    /\ pc = "send_mission"
    /\ Len(data) > 2 * MaxChunk
    /\ \E i \in 1..(Len(data) - 1) : data[i] = "\n"
    /\ data = wire
    /\ HasWaypointObjects(mission)

(***************************************************************************)
(* C18.  send_mission is at the action client (wait_for_server, line 56,    *)
(* or later) only for a payload that was decoded and has waypoints.  A      *)
(* connection whose payload fails decoding or has no waypoints comes back   *)
(* to accept, closed, from a state where the action server is not           *)
(* reachable, whether or not the server ever comes up (unless the operator  *)
(* stops the bridge).                                                      *)
(***************************************************************************)
Undispatchable(bytes) ==
    IF DecodeFails(bytes) THEN TRUE ELSE NoWaypoints(JsonLoads(bytes).val)

C18_ClientOnlyAfterValidation ==
    /\ [](pc \in DispatchPcs => ~Undispatchable(data))
    /\ ((pc = "parse" /\ Undispatchable(data) /\ ~reachable)
           ~> (NextAccept \/ OperatorStop))

C18_Witness ==
    /\ pc = "accept"
    /\ ~reachable
    /\ nconn = 2
    /\ Len(readDone) = 2
    /\ sent = <<>>
    /\ open = {}
    /\ raised = "none" /\ ok

(***************************************************************************)
(* C19.  A payload that decodes to JSON without the shape of a mission      *)
(* (the top-level value is no object; nav_waypoints is a truthy value that  *)
(* is no list; or some element of the list is no object, whatever comes     *)
(* before it): no send_goal_async call is made for the connection, the      *)
(* action client is not reached, and the loop comes back to accept, unless  *)
(* the operator stops the bridge.                                          *)
(***************************************************************************)
NotMissionShape(m) ==
    \/ m.t # "obj"
    \/ /\ m.t = "obj"
       /\ "nav_waypoints" \in DOMAIN m.m
       /\ \/ m.m["nav_waypoints"].t \in {"int", "float", "bool"}
                /\ m.m["nav_waypoints"].v \notin {"0", "0.0", "false"}
          \/ m.m["nav_waypoints"].t = "str"
                /\ m.m["nav_waypoints"].v # "\"\""
          \/ m.m["nav_waypoints"].t = "obj"
                /\ DOMAIN m.m["nav_waypoints"].m # {}
          \/ m.m["nav_waypoints"].t = "arr"
                /\ \E i \in 1..Len(m.m["nav_waypoints"].a) :
                      m.m["nav_waypoints"].a[i].t # "obj"

C19_BadShapeNotSubmitted ==
    /\ []((mission # NoMission /\ NotMissionShape(mission))
             => (conn \notin Range(sent) /\ pc \notin DispatchPcs))
    /\ ((pc = "send_mission" /\ NotMissionShape(mission))
           ~> (NextAccept \/ OperatorStop))

C19_Witness ==
    /\ pc = "except"
    /\ mission.t = "obj"
    /\ "nav_waypoints" \in DOMAIN mission.m
    /\ mission.m["nav_waypoints"].t = "arr"
    /\ Len(mission.m["nav_waypoints"].a) = 2
    /\ mission.m["nav_waypoints"].a[1].t = "obj"
    /\ mission.m["nav_waypoints"].a[2].t # "obj"
    /\ conn \notin Range(sent)
    /\ reachable

(***************************************************************************)
(* C17.  Diagnostic server: the read loop is left when data_str has a       *)
(* newline or recv returned nothing, never later (it does not read again    *)
(* with a newline in data_str) and for no other reason; what it has then    *)
(* is every chunk received, the text after the newline included, and the    *)
(* value printed, or the error, is the decoding of all of it.              *)
(***************************************************************************)
C17_StopsAtNewlineOrEof ==
    /\ [](pc = "diag_recv" => ~HasNewline(data))
    /\ [][(pc = "diag_recv" /\ pc' = "diag_loads")
             => (HasNewline(data') \/ (stream = <<>> /\ data' = data))]_vars
    /\ [](pc \in {"diag_loads", "diag_end"} => data \o stream = wire)
    /\ [](pc = "diag_end" =>
            mission = IF JsonLoads(data).ok THEN JsonLoads(data).val
                      ELSE NoMission)

C17_Witness ==
    /\ pc = "diag_end"
    /\ stream # <<>>
    /\ \E i \in 1..(Len(data) - 1) : data[i] = "\n"
    /\ JsonLoads(FirstLine(data)).ok
    /\ mission = NoMission

(***************************************************************************)
(* C20.  Diagnostic server: after a bind that failed the server is not      *)
(* stopped: its next step is listen, which brings it into the accept loop   *)
(* (on a port the system chose), and no error ends the server before a      *)
(* connection was accepted.                                                *)
(***************************************************************************)
C20_BindFailureNotFatal ==
    /\ [](sock = "bind_failed" => (pc = "diag_listen" /\ raised = "none"))
    /\ [][sock = "bind_failed"
             => (sock' = "listening_unbound" /\ pc' = "diag_accept")]_vars
    /\ [](sock = "listening_unbound" => (pc = "diag_accept" /\ raised = "none"))
    /\ [](pc = "diag_crashed" => conn > 0)

C20_Witness ==
    /\ sock = "listening_unbound"
    /\ pc = "diag_accept"
    /\ raised = "none"

====
